---- MODULE Spec2Model ----
(***************************************************************************)
(* McCrackn's Prime Law: the motif classifier (numbers_domains.py), the    *)
(* prime-law engine (mccrackns_prime_law.py) and the resumable CSV driver  *)
(* (compute_motifs.py), modelled as state machines.                        *)
(*                                                                         *)
(* A motif label is the string "U1" or "E<k>.<x>".  It is modelled by the  *)
(* tuple of its letter and its decimal fields: <<"U", 1>> for "U1" and     *)
(* <<"E", k, x>> for "E<k>.<x>", which is what label[1:].split(".")        *)
(* recovers from the string.                                               *)
(***************************************************************************)
EXTENDS Integers, Sequences, FiniteSets, TLC

VARIABLES n_arg, law, gen, last, dom, mc, csv, state_file, drv, nxt, prod, rd

vars == <<n_arg, law, gen, last, dom, mc, csv, state_file, drv, nxt, prod, rd>>

motifVars  == <<dom, mc>>
driverVars == <<csv, state_file, drv>>
toolVars   == <<nxt, prod, rd>>

(***************************************************************************)
(* Bounds of the model.                                                    *)
(***************************************************************************)
MaxN == 30          \* largest n_primes argument given to the constructor
MaxNegGap == 12     \* the classifier is handed gaps down to -MaxNegGap
MaxGap == 70        \* largest gap handed to the classifier
MaxRunN == 16       \* largest --n given to the compute_motifs driver
MaxRuns == 3        \* number of runs of the compute_motifs driver
MaxP    == 140      \* largest --P given to next_prime
MaxExp  == 7        \* largest --exp given to next_prime

(***************************************************************************)
(* Python integer helpers.                                                 *)
(***************************************************************************)
\* F applied to the value of v, with v evaluated once
Bind(v, F(_)) == CHOOSE r \in {F(x) : x \in {v}} : TRUE

\* F applied k times to v, composed by halves so that the evaluation stays
\* shallow
RECURSIVE Iterate(_, _, _)
Iterate(F(_), v, k) ==
    IF k <= 0 THEN v
    ELSE IF k = 1 THEN F(v)
    ELSE Bind(Iterate(F, v, k \div 2),
              LAMBDA w : Iterate(F, w, k - (k \div 2)))

\* while not Done(v): v = F(v), run in rounds of k, 2k, 4k, ... passes
RECURSIVE RunUntil(_, _, _, _)
RunUntil(F(_), Done(_), v, k) ==
    IF Done(v) THEN v
    ELSE Bind(Iterate(LAMBDA x : IF Done(x) THEN x ELSE F(x), v, k),
              LAMBDA w : RunUntil(F, Done, w, 2 * k))

Max(a, b) == IF a >= b THEN a ELSE b
Min(a, b) == IF a <= b THEN a ELSE b

RECURSIVE BitAndNat(_, _)
BitAndNat(a, b) ==
    IF a = 0 \/ b = 0 THEN 0
    ELSE (a % 2) * (b % 2) + 2 * BitAndNat(a \div 2, b \div 2)

RECURSIVE BitOrNat(_, _)
BitOrNat(a, b) ==
    IF a = 0 THEN b
    ELSE IF b = 0 THEN a
    ELSE Max(a % 2, b % 2) + 2 * BitOrNat(a \div 2, b \div 2)

\* a & b on unbounded two's-complement integers
BitAnd(a, b) ==
    IF a >= 0 /\ b >= 0 THEN BitAndNat(a, b)
    ELSE IF a >= 0 THEN a - BitAndNat(a, (-b) - 1)
    ELSE IF b >= 0 THEN b - BitAndNat(b, (-a) - 1)
    ELSE (-1) - BitOrNat((-a) - 1, (-b) - 1)

RECURSIVE BitLengthNat(_)
BitLengthNat(n) == IF n = 0 THEN 0 ELSE 1 + BitLengthNat(n \div 2)

\* int.bit_length(): the number of bits of the absolute value
bit_length(n) == BitLengthNat(IF n < 0 THEN -n ELSE n)

\* a >> k for k >= 0: floor division by 2^k
ShiftRight(a, k) == a \div (2 ^ k)

RECURSIVE gcd(_, _)
gcd(a, b) == IF b = 0 THEN a ELSE gcd(b, a % b)

\* s[:n]
PySlice(s, n) ==
    IF n >= 0 THEN SubSeq(s, 1, Min(n, Len(s)))
    ELSE SubSeq(s, 1, Max(0, Len(s) + n))

InSeq(e, s) == \E i \in 1..Len(s) : s[i] = e

(***************************************************************************)
(* numbers_domains.py -- NumbersDomains                                    *)
(***************************************************************************)
U1 == <<"U", 1>>
E(k, x) == <<"E", k, x>>

_CACHE_LIMIT == 1048576

EmptyCache == [g \in {} |-> U1]

\* the validity checks of canonical_motif that raise ValueError
CanonicalMotifRaises(g) ==
    /\ g /= 1
    /\ \/ BitAnd(g, 1) /= 0
       \/ /\ BitAnd(g, g - 1) /= 0
          /\ LET k   == bit_length(BitAnd(g, -g)) - 1
                 odd == ShiftRight(g, k)
             IN  odd < 3 \/ odd % 2 = 0

\* the label canonical_motif computes when it reaches the labelling code
CanonicalMotifLabel(g) ==
    IF BitAnd(g, g - 1) = 0
    THEN E(1, (bit_length(g) - 1) - 1)
    ELSE LET k   == bit_length(BitAnd(g, -g)) - 1
             odd == ShiftRight(g, k)
         IN  E(k + 1, (odd - 3) \div 2)

\* canonical_motif without the test of the parity of the gap
canonical_motif_NoParityCheck(cache, g, use_cache) ==
    IF g = 1
    THEN [exc |-> "none", ret |-> U1, cache |-> cache]
    ELSE IF use_cache /\ g <= _CACHE_LIMIT /\ g \in DOMAIN cache
    THEN [exc |-> "none", ret |-> cache[g], cache |-> cache]
    ELSE IF /\ BitAnd(g, g - 1) /= 0
            /\ LET odd == ShiftRight(g, bit_length(BitAnd(g, -g)) - 1)
               IN  odd < 3 \/ odd % 2 = 0
    THEN [exc |-> "ValueError", ret |-> U1, cache |-> cache]
    ELSE LET lbl == CanonicalMotifLabel(g)
         IN  [exc |-> "none", ret |-> lbl,
              cache |-> IF use_cache /\ g <= _CACHE_LIMIT
                        THEN [h \in (DOMAIN cache) \cup {g} |->
                                 IF h = g THEN lbl ELSE cache[h]]
                        ELSE cache]

\* canonical_motif memoizing the label under the key g + 2
canonical_motif_CacheKeyOff(cache, g, use_cache) ==
    IF g = 1
    THEN [exc |-> "none", ret |-> U1, cache |-> cache]
    ELSE IF BitAnd(g, 1) /= 0
    THEN [exc |-> "ValueError", ret |-> U1, cache |-> cache]
    ELSE IF use_cache /\ g <= _CACHE_LIMIT /\ g \in DOMAIN cache
    THEN [exc |-> "none", ret |-> cache[g], cache |-> cache]
    ELSE IF CanonicalMotifRaises(g)
    THEN [exc |-> "ValueError", ret |-> U1, cache |-> cache]
    ELSE LET lbl == CanonicalMotifLabel(g)
         IN  [exc |-> "none", ret |-> lbl,
              cache |-> IF use_cache /\ g <= _CACHE_LIMIT
                        THEN [h \in (DOMAIN cache) \cup {g + 2} |->
                                 IF h = g + 2 THEN lbl ELSE cache[h]]
                        ELSE cache]

\* canonical_motif(g, use_cache) on a NumbersDomains whose _cache is cache:
\* exc is the exception raised ("none" when it returns), ret the label
\* returned, cache the _cache afterwards.
canonical_motif(cache, g, use_cache) ==
    IF g = 1
    THEN [exc |-> "none", ret |-> U1, cache |-> cache]
    ELSE IF BitAnd(g, 1) /= 0
    THEN [exc |-> "ValueError", ret |-> U1, cache |-> cache]
    ELSE IF use_cache /\ g <= _CACHE_LIMIT /\ g \in DOMAIN cache
    THEN [exc |-> "none", ret |-> cache[g], cache |-> cache]
    ELSE IF CanonicalMotifRaises(g)
    THEN [exc |-> "ValueError", ret |-> U1, cache |-> cache]
    ELSE LET lbl == CanonicalMotifLabel(g)
         IN  [exc |-> "none", ret |-> lbl,
              cache |-> IF use_cache /\ g <= _CACHE_LIMIT
                        THEN [h \in (DOMAIN cache) \cup {g} |->
                                 IF h = g THEN lbl ELSE cache[h]]
                        ELSE cache]

(***************************************************************************)
(* mccrackns_prime_law.py -- McCracknsPrimeLaw._gap                        *)
(***************************************************************************)
\* 1 << n raises ValueError for a negative shift count
_gap_raises(label) ==
    /\ label /= U1
    /\ IF label[2] = 1 THEN label[3] + 1 < 0 ELSE label[2] - 1 < 0

\* _gap with the E1.x branch shifting by x instead of x + 1
_gap_ShiftByX(label) ==
    IF label = U1 THEN 1
    ELSE LET k == label[2]
             x == label[3]
         IN  IF k = 1 THEN 2 ^ x
             ELSE (2 ^ (k - 1)) * (2 * x + 3)

_gap(label) ==
    IF label = U1 THEN 1
    ELSE LET k == label[2]
             x == label[3]
         IN  IF k = 1 THEN 2 ^ (x + 1)
             ELSE (2 ^ (k - 1)) * (2 * x + 3)

(***************************************************************************)
(* mccrackns_prime_law.py -- McCracknsPrimeLaw                             *)
(*                                                                         *)
(* An engine is a record of the instance attributes; exc is "none" while   *)
(* no exception has escaped a method, and names the exception otherwise.   *)
(* The methods are operators from the engine before to the engine after.   *)
(* bumped is a history field, no attribute of the instance: the number of  *)
(* calls of _bump_regime made so far, and the attributes before and after  *)
(* the last one.                                                           *)
(***************************************************************************)
AttrNames == {"n_primes", "primes", "gaps", "motifs", "run_counter",
              "domains", "regime_idx", "primorial", "alphabet",
              "used_motifs", "regime_points", "exc"}

\* the instance attributes of the engine l
Attrs(l) == [f \in AttrNames |-> l[f]]

NoBump == [n |-> 0, pre |-> <<>>, post |-> <<>>]

\* the call of _bump_regime that took the engine l to the engine l1
LogBump(l, l1) ==
    [l1 EXCEPT !.bumped = [n |-> l.bumped.n + 1, pre |-> Attrs(l),
                           post |-> Attrs(l1)]]

seed_primes == <<2, 3, 5, 7, 11, 13>>
seed_gaps   == <<1, 2, 2, 4, 2>>
seed_labels == <<U1, E(1, 0), E(1, 0), E(1, 1), E(1, 0)>>

Raise(l, e) == [l EXCEPT !.exc = e]

\* dict.get(label, 0)
RunOf(rc, label) == IF label \in DOMAIN rc THEN rc[label] ELSE 0

\* the run counter is read but the new run is never stored
SetRun_NotStored(rc, label, run) == rc

SetRun(rc, label, run) ==
    [m \in (DOMAIN rc) \cup {label} |-> IF m = label THEN run ELSE rc[m]]

\* the sort key of _sort_alpha: (gap,) + the integer fields of the label
SortKey(lbl) == <<_gap(lbl)>> \o Tail(lbl)

\* a < b on Python tuples of integers
RECURSIVE TupleLess(_, _)
TupleLess(a, b) ==
    IF Len(b) = 0 THEN FALSE
    ELSE IF Len(a) = 0 THEN TRUE
    ELSE IF Head(a) /= Head(b) THEN Head(a) < Head(b)
    ELSE TupleLess(Tail(a), Tail(b))

\* list.sort is stable: the place of s[i] in the sorted list is one more
\* than the number of elements with a smaller key, or an equal key and an
\* earlier position
SortRank(s, i) ==
    1 + Cardinality({j \in 1..Len(s) :
          \/ TupleLess(SortKey(s[j]), SortKey(s[i]))
          \/ /\ ~TupleLess(SortKey(s[i]), SortKey(s[j]))
             /\ j < i})

SortedSeq(s) ==
    [r \in 1..Len(s) |-> s[CHOOSE i \in 1..Len(s) : SortRank(s, i) = r]]

_sort_alpha(l) ==
    IF l.exc /= "none" THEN l
    ELSE IF \E i \in 1..Len(l.alphabet) : _gap_raises(l.alphabet[i])
    THEN Raise(l, "ValueError")
    ELSE [l EXCEPT !.alphabet = SortedSeq(l.alphabet)]

\* the scan of _next_motif from gap g upward
RECURSIVE NextMotifScan(_, _, _)
NextMotifScan(alphabet, cache, g) ==
    Bind(canonical_motif(cache, g, TRUE),
         LAMBDA r :
            IF r.exc /= "none" THEN r
            ELSE IF r.ret /= U1 /\ ~InSeq(r.ret, alphabet) THEN r
            ELSE NextMotifScan(alphabet, r.cache, g + 2))

\* _next_motif scanning from the gap after the next one
_next_motif_SkipsOne(l) ==
    IF _gap_raises(l.alphabet[Len(l.alphabet)])
    THEN [exc |-> "ValueError", ret |-> U1, cache |-> l.domains]
    ELSE NextMotifScan(l.alphabet, l.domains,
                       _gap(l.alphabet[Len(l.alphabet)]) + 4)

_next_motif(l) ==
    IF _gap_raises(l.alphabet[Len(l.alphabet)])
    THEN [exc |-> "ValueError", ret |-> U1, cache |-> l.domains]
    ELSE NextMotifScan(l.alphabet, l.domains,
                       _gap(l.alphabet[Len(l.alphabet)]) + 2)

\* self.alphabet.append(self._next_motif()); self._sort_alpha()
ExtendAlphabet(l) ==
    IF l.exc /= "none" THEN l
    ELSE Bind(_next_motif(l),
              LAMBDA r :
                 IF r.exc /= "none"
                 THEN [l EXCEPT !.exc = r.exc, !.domains = r.cache]
                 ELSE Bind([l EXCEPT !.alphabet = Append(@, r.ret),
                                     !.domains  = r.cache],
                           _sort_alpha))

RECURSIVE _bump_regime(_), BumpFill(_), BumpAdvance(_), _record(_, _, _, _),
          _single_step(_), CandidatePass(_), RegimeLoop(_, _, _)

\* while len(self.primes) <= self.regime_idx: self._single_step(internal=True)
\* (the loop cannot end if the step returns at once, below 6 primes)
BumpFill(l) ==
    IF l.exc /= "none" THEN l
    ELSE IF Len(l.primes) <= l.regime_idx
    THEN IF Len(l.primes) < 6 THEN Raise(l, "Diverges")
         ELSE Bind(_single_step(l), BumpFill)
    ELSE l

\* _bump_regime without self.used_motifs.clear()
BumpAdvance_KeepsUsed(l) ==
    IF l.exc /= "none" THEN l
    ELSE Bind(Bind([l EXCEPT !.regime_idx = @ + 1], BumpFill),
              LAMBDA l2 :
                 IF l2.exc /= "none" THEN l2
                 ELSE [l2 EXCEPT
                         !.primorial = @ * l2.primes[l2.regime_idx + 1]])

\* the primorial multiplied by the prime at the regime index before the
\* increment
BumpAdvance_PrevPrime(l) ==
    IF l.exc /= "none" THEN l
    ELSE Bind(Bind([l EXCEPT !.regime_idx = @ + 1], BumpFill),
              LAMBDA l2 :
                 IF l2.exc /= "none" THEN l2
                 ELSE [l2 EXCEPT
                         !.primorial   = @ * l2.primes[l2.regime_idx],
                         !.used_motifs = {}])

\* _bump_regime from self.regime_idx += 1 to its end
BumpAdvance(l) ==
    IF l.exc /= "none" THEN l
    ELSE Bind(Bind([l EXCEPT !.regime_idx = @ + 1], BumpFill),
              LAMBDA l2 :
                 IF l2.exc /= "none" THEN l2
                 ELSE [l2 EXCEPT
                         !.primorial   = @ * l2.primes[l2.regime_idx + 1],
                         !.used_motifs = {}])

\* _bump_regime opening the regime without a new label
_bump_regime_NoLabel(l) ==
    IF l.exc /= "none" THEN l
    ELSE Bind(Bind([l EXCEPT !.regime_points = Append(@, Len(l.primes))],
                   BumpAdvance),
              LAMBDA l1 : LogBump(l, l1))

\* _bump_regime recording the prime count the next step will reach
_bump_regime_PointAfter(l) ==
    IF l.exc /= "none" THEN l
    ELSE Bind(Bind(Bind([l EXCEPT
                           !.regime_points = Append(@, Len(l.primes) + 1)],
                        ExtendAlphabet),
                   BumpAdvance),
              LAMBDA l1 : LogBump(l, l1))

_bump_regime(l) ==
    IF l.exc /= "none" THEN l
    ELSE Bind(Bind(Bind([l EXCEPT !.regime_points = Append(@, Len(l.primes))],
                        ExtendAlphabet),
                   BumpAdvance),
              LAMBDA l1 : LogBump(l, l1))

\* _record without self.gaps.append(gap)
_record_NoGap(l, cand, gap, label) ==
    Bind(RunOf(l.run_counter, label) + 1,
         LAMBDA run :
            Bind([l EXCEPT !.primes      = Append(@, cand),
                           !.run_counter = SetRun(@, label, run),
                           !.motifs      = Append(@, <<label, run>>),
                           !.used_motifs = @ \cup {label}],
                 LAMBDA l1 :
                    IF Cardinality(l1.used_motifs) = Len(l1.alphabet)
                    THEN _bump_regime(l1)
                    ELSE l1))

_record(l, cand, gap, label) ==
    Bind(RunOf(l.run_counter, label) + 1,
         LAMBDA run :
            Bind([l EXCEPT !.primes      = Append(@, cand),
                           !.gaps        = Append(@, gap),
                           !.run_counter = SetRun(@, label, run),
                           !.motifs      = Append(@, <<label, run>>),
                           !.used_motifs = @ \cup {label}],
                 LAMBDA l1 :
                    IF Cardinality(l1.used_motifs) = Len(l1.alphabet)
                    THEN _bump_regime(l1)
                    ELSE l1))

\* the candidate is accepted without the bound primes[regime_idx] ** 2
RegimeLoop_NoBound(l, cand, P) == [law |-> l, P |-> P, broke |-> FALSE]

\* while cand >= self.primes[self.regime_idx] ** 2: ... else: ...
\* broke is TRUE when the loop ended by break, P is the local primorial
RegimeLoop(l, cand, P) ==
    IF l.regime_idx + 1 > Len(l.primes)
    THEN [law |-> Raise(l, "IndexError"), P |-> P, broke |-> TRUE]
    ELSE IF cand >= l.primes[l.regime_idx + 1] ^ 2
    THEN Bind(_bump_regime(l),
              LAMBDA l1 :
                 IF l1.exc /= "none" \/ gcd(cand, l1.primorial) /= 1
                 THEN [law |-> l1, P |-> l1.primorial, broke |-> TRUE]
                 ELSE RegimeLoop(l1, cand, l1.primorial))
    ELSE [law |-> l, P |-> P, broke |-> FALSE]

\* one iteration of for lbl in self.alphabet, at position t.i of the list
\* as it is now, with the locals p_curr and P; when the for is exhausted,
\* the alphabet extension and the start of the next round of while True;
\* st becomes ret when _single_step returns or raises
CandidatePass(t) ==
    IF t.law.exc /= "none" THEN [t EXCEPT !.st = "ret"]
    ELSE IF t.i > Len(t.law.alphabet)
    THEN Bind(ExtendAlphabet(t.law),
              LAMBDA l1 :
                 IF l1.exc /= "none" THEN [t EXCEPT !.law = l1, !.st = "ret"]
                 ELSE [law |-> l1, i |-> 1,
                       p_curr |-> l1.primes[Len(l1.primes)],
                       P |-> l1.primorial, st |-> "for"])
    ELSE IF _gap_raises(t.law.alphabet[t.i])
    THEN [t EXCEPT !.law = Raise(@, "ValueError"), !.st = "ret"]
    ELSE Bind(t.p_curr + _gap(t.law.alphabet[t.i]),
              LAMBDA cand :
                 IF gcd(cand, t.P) /= 1
                 THEN [t EXCEPT !.i = @ + 1]
                 ELSE Bind(RegimeLoop(t.law, cand, t.P),
                           LAMBDA r :
                              IF r.law.exc /= "none"
                              THEN [t EXCEPT !.law = r.law, !.st = "ret"]
                              ELSE IF r.broke
                              THEN [t EXCEPT !.law = r.law, !.P = r.P,
                                             !.i = @ + 1]
                              ELSE [t EXCEPT
                                      !.law = _record(r.law, cand,
                                                 _gap(t.law.alphabet[t.i]),
                                                 t.law.alphabet[t.i]),
                                      !.st = "ret"]))

CandidateDone(t) == t.st = "ret"

_single_step(l) ==
    IF l.exc /= "none" THEN l
    ELSE IF Len(l.primes) < 6 THEN l
    ELSE RunUntil(CandidatePass, CandidateDone,
                  [law |-> l, i |-> 1, p_curr |-> l.primes[Len(l.primes)],
                   P |-> l.primorial, st |-> "for"],
                  4).law

\* the seed loop of __init__ over seed_labels[:len(self.primes) - 1]
RECURSIVE SeedMotifs(_, _, _)
SeedMotifs(labels, motifs, rc) ==
    IF Len(labels) = 0 THEN [motifs |-> motifs, run_counter |-> rc]
    ELSE Bind(RunOf(rc, Head(labels)) + 1,
              LAMBDA run :
                 Bind(SetRun(rc, Head(labels), run),
                      LAMBDA rc1 :
                         Bind(Append(motifs, <<Head(labels), run>>),
                              LAMBDA motifs1 :
                                 Bind(Tail(labels),
                                      LAMBDA rest :
                                         SeedMotifs(rest, motifs1, rc1)))))

\* __init__ expanding the regime only when the target is above the seed
InitRegime_TargetAboveSeed(l) ==
    Bind(Bind(l, _sort_alpha),
         LAMBDA l0 :
            Bind([l0 EXCEPT !.used_motifs =
                               {l0.alphabet[i] : i \in 1..Len(l0.alphabet)}],
                 LAMBDA l1 :
                    IF l1.n_primes > 6 THEN _bump_regime(l1) ELSE l1))

\* __init__ from self.domains = NumbersDomains() to its end, on the engine
\* that holds the seed
InitRegime(l) ==
    Bind(Bind(l, _sort_alpha),
         LAMBDA l0 :
            Bind([l0 EXCEPT !.used_motifs =
                               {l0.alphabet[i] : i \in 1..Len(l0.alphabet)}],
                 LAMBDA l1 :
                    IF Len(l1.primes) >= 6 THEN _bump_regime(l1) ELSE l1))

\* __init__ up to the end of the seed loop, for self.n_primes = np
InitSeed(np) ==
    Bind(PySlice(seed_primes, np),
         LAMBDA primes :
            Bind(SeedMotifs(PySlice(seed_labels, Len(primes) - 1),
                            << <<U1, 1>> >>,
                            [m \in {U1, E(1, 0), E(1, 1)} |->
                                IF m = U1 THEN 1 ELSE 0]),
                 LAMBDA sm :
                    [n_primes      |-> np,
                     primes        |-> primes,
                     gaps          |-> PySlice(seed_gaps, Len(primes) - 1),
                     motifs        |-> sm.motifs,
                     run_counter   |-> sm.run_counter,
                     domains       |-> EmptyCache,
                     regime_idx    |-> 1,
                     primorial     |-> 2 * 3,
                     alphabet      |-> <<U1, E(1, 0)>>,
                     used_motifs   |-> {},
                     regime_points |-> <<>>,
                     exc           |-> "none",
                     bumped        |-> NoBump]))

\* McCracknsPrimeLaw(n_primes=n)
McCracknsPrimeLaw(n) == Bind(Bind(Max(2, n), InitSeed), InitRegime)

\* one test and pass of: while len(self.primes) < self.n_primes:
\*                           self._single_step()
\* (the loop cannot end if the step returns at once, below 6 primes)
GeneratePass(l) ==
    IF l.exc /= "none" THEN l
    ELSE IF Len(l.primes) < l.n_primes
    THEN IF Len(l.primes) < 6 THEN Raise(l, "Diverges")
         ELSE _single_step(l)
    ELSE l

GenerateDone(l) == l.exc /= "none" \/ Len(l.primes) >= l.n_primes

\* generate(): the engine after the call (the call returns its primes)
generate(l) == RunUntil(GeneratePass, GenerateDone, l, 4)

\* the tuple with the motif of the entry before the last
Emit_PreviousMotif(l) ==
    LET idx == Len(l.primes)
    IN  <<idx,
          l.primes[idx],
          IF idx = 1 THEN 0 ELSE l.gaps[Len(l.gaps)],
          IF idx = 1 THEN U1 ELSE l.motifs[Len(l.motifs) - 1][1]>>

\* the tuple (idx, p, gap, motif) built by generate_one and stream_primes
Emit(l) ==
    LET idx == Len(l.primes)
    IN  <<idx,
          l.primes[idx],
          IF idx = 1 THEN 0 ELSE l.gaps[Len(l.gaps)],
          IF idx = 1 THEN U1 ELSE l.motifs[Len(l.motifs)][1]>>

\* generate_one without the test len(self.primes) < self.n_primes
generate_one_Unguarded(l) ==
    Bind(_single_step(l),
         LAMBDA l1 :
            [law |-> l1, ret |-> IF l1.exc = "none" THEN Emit(l1) ELSE <<>>])

\* generate_one(): the engine after the call and the tuple returned
generate_one(l) ==
    Bind(IF Len(l.primes) < l.n_primes THEN _single_step(l) ELSE l,
         LAMBDA l1 :
            [law |-> l1, ret |-> IF l1.exc = "none" THEN Emit(l1) ELSE <<>>])

\* a pass that computes one prime ahead of the tuple it yields
StreamPass_Prefetch(t, s) ==
    IF t.law.exc /= "none" THEN [t EXCEPT !.st = "done"]
    ELSE IF Len(t.law.primes) < t.law.n_primes
    THEN Bind(_single_step(t.law),
              LAMBDA l1 :
                 IF l1.exc /= "none"
                 THEN [law |-> l1, st |-> "done", ret |-> <<>>]
                 ELSE IF Len(l1.primes) >= s
                 THEN [law |-> IF Len(l1.primes) < l1.n_primes
                               THEN _single_step(l1) ELSE l1,
                       st |-> "yield", ret |-> Emit(l1)]
                 ELSE [law |-> l1, st |-> "run", ret |-> <<>>])
    ELSE [t EXCEPT !.st = "done"]

\* one test and pass of the while loop of stream_primes(start_idx=s), on
\* the running generator t: st becomes yield at the yield and done when the
\* loop ends (the loop cannot end if a pass neither yields nor adds a prime)
StreamPass(t, s) ==
    IF t.law.exc /= "none" THEN [t EXCEPT !.st = "done"]
    ELSE IF Len(t.law.primes) < t.law.n_primes
    THEN Bind(_single_step(t.law),
              LAMBDA l1 :
                 IF l1.exc /= "none"
                 THEN [law |-> l1, st |-> "done", ret |-> <<>>]
                 ELSE IF Len(l1.primes) >= s
                 THEN [law |-> l1, st |-> "yield", ret |-> Emit(l1)]
                 ELSE IF Len(l1.primes) = Len(t.law.primes)
                 THEN [law |-> Raise(l1, "Diverges"), st |-> "done",
                       ret |-> <<>>]
                 ELSE [law |-> l1, st |-> "run", ret |-> <<>>])
    ELSE [t EXCEPT !.st = "done"]

StreamSuspended(t) == t.st /= "run"

\* one resumption of the generator stream_primes(start_idx=s): it runs to
\* its next yield (ret is the tuple) or to its end (done)
StreamResume(l, s) ==
    Bind(RunUntil(LAMBDA t : StreamPass(t, s), StreamSuspended,
                  [law |-> l, st |-> "run", ret |-> <<>>], 4),
         LAMBDA t : [law |-> t.law, done |-> t.st /= "yield", ret |-> t.ret])

(***************************************************************************)
(* The engine and one stream over it.                                      *)
(*                                                                         *)
(* n_arg is the n_primes argument of the constructor, law the engine, gen  *)
(* the generator object returned by stream_primes (st: none, created,      *)
(* suspended at a yield, done, closed by its consumer; out: the tuples it  *)
(* has yielded; fresh: it was created on a newly constructed engine), last *)
(* the last call made (op), the engine before it (pre) and what it         *)
(* returned (ret).  An engine is stepped by generate and generate_one or   *)
(* consumed through a stream, the two are exclusive on one instance: as in *)
(* compute_motifs.py, the stream comes after the single steps.             *)
(***************************************************************************)
NoGen == [st |-> "none", start_idx |-> 1, out |-> <<>>, fresh |-> FALSE]

NoCall == [st |-> "new", g |-> 1, use_cache |-> TRUE, exc |-> "none",
           lbl |-> U1, gexc |-> "none", back |-> 0,
           g2 |-> 1, use_cache2 |-> TRUE, exc2 |-> "none", lbl2 |-> U1]

\* no CSV file, no state file, the driver not yet run
NoCsv   == [exists |-> FALSE, header |-> FALSE, rows |-> <<>>]
NoState == [exists |-> FALSE, last_prime |-> 0, regime_points |-> <<>>]
NoRun   == [pc |-> "idle", N |-> 0, done |-> 0, saved |-> FALSE,
            runs |-> <<>>]

Live(g) == g.st \in {"created", "suspended"}

\* next_prime.py not run; no producer thread and no reader of the count
NoNxt  == [pc |-> "idle", P |-> 0, n |-> 0, out |-> 0, exc |-> "none"]
NoProd == [pc |-> "idle", cand |-> 0, gap |-> 0, lbl |-> U1, run |-> 0]
NoRd   == [polled |-> FALSE, count |-> 0, primes |-> <<>>]

InitTools ==
    /\ nxt = NoNxt
    /\ prod = NoProd
    /\ rd = NoRd

Init ==
    /\ n_arg \in 1..MaxN
    /\ law = McCracknsPrimeLaw(n_arg)
    /\ gen = NoGen
    /\ last = [op |-> "init", pre |-> law, ret |-> <<>>]
    /\ dom = EmptyCache
    /\ mc = NoCall
    /\ csv = NoCsv
    /\ state_file = NoState
    /\ drv = NoRun
    /\ InitTools

Generate ==
    /\ law.exc = "none"
    /\ gen.st = "none"
    /\ law' = generate(law)
    /\ last' = [op |-> "generate", pre |-> law, ret |-> law'.primes]
    /\ UNCHANGED <<toolVars, n_arg, gen, motifVars, driverVars>>

GenerateOne ==
    /\ law.exc = "none"
    /\ gen.st = "none"
    /\ \E r \in {generate_one(law)} :
          /\ law' = r.law
          /\ last' = [op |-> "generate_one", pre |-> law, ret |-> r.ret]
    /\ UNCHANGED <<toolVars, n_arg, gen, motifVars, driverVars>>

\* law.stream_primes(start_idx=s): the generator is created, no code runs
StreamPrimes(s) ==
    /\ law.exc = "none"
    /\ gen.st = "none"
    /\ gen' = [st |-> "created", start_idx |-> s, out |-> <<>>,
               fresh |-> (last.op = "init")]
    /\ UNCHANGED <<toolVars, n_arg, law, last, motifVars, driverVars>>

\* next() on the generator
StreamNext ==
    /\ Live(gen)
    /\ \E r \in {StreamResume(law, gen.start_idx)} :
          /\ law' = r.law
          /\ gen' = IF r.done THEN [gen EXCEPT !.st = "done"]
                    ELSE [gen EXCEPT !.st = "suspended",
                                     !.out = Append(@, r.ret)]
          /\ last' = [op |-> "next", pre |-> law, ret |-> r.ret]
    /\ UNCHANGED <<toolVars, n_arg, motifVars, driverVars>>

\* the consumer stops iterating
StreamClose ==
    /\ Live(gen)
    /\ gen' = [gen EXCEPT !.st = "closed"]
    /\ last' = [op |-> "close", pre |-> law, ret |-> <<>>]
    /\ UNCHANGED <<toolVars, n_arg, law, motifVars, driverVars>>

Next ==
    \/ Generate
    \/ GenerateOne
    \/ \E s \in 1..law.n_primes : StreamPrimes(s)
    \/ StreamNext
    \/ StreamClose

Spec == Init /\ [][Next]_vars

\* an engine advanced by single steps only, one prime at a time
NextSteps == GenerateOne

SpecSteps == Init /\ [][NextSteps]_vars

(***************************************************************************)
(* The classifier alone: one NumbersDomains, a call of canonical_motif, the *)
(* decoding of its label by _gap, and a second call of canonical_motif.    *)
(***************************************************************************)
InitMotif ==
    /\ n_arg = 2
    /\ law = McCracknsPrimeLaw(n_arg)
    /\ gen = NoGen
    /\ last = [op |-> "init", pre |-> law, ret |-> <<>>]
    /\ dom = EmptyCache
    /\ mc = NoCall
    /\ csv = NoCsv
    /\ state_file = NoState
    /\ drv = NoRun
    /\ InitTools

Classify(g, uc) ==
    /\ mc.st = "new"
    /\ \E r \in {canonical_motif(dom, g, uc)} :
          /\ dom' = r.cache
          /\ mc' = [mc EXCEPT !.st = "classified", !.g = g,
                              !.use_cache = uc, !.exc = r.exc, !.lbl = r.ret]
    /\ UNCHANGED <<toolVars, n_arg, law, gen, last, driverVars>>

Decode ==
    /\ mc.st = "classified"
    /\ mc.exc = "none"
    /\ mc' = IF _gap_raises(mc.lbl)
             THEN [mc EXCEPT !.st = "decoded", !.gexc = "ValueError"]
             ELSE [mc EXCEPT !.st = "decoded", !.back = _gap(mc.lbl)]
    /\ UNCHANGED <<toolVars, n_arg, law, gen, last, dom, driverVars>>

Reclassify(g, uc) ==
    /\ \/ mc.st = "decoded"
       \/ mc.st = "classified" /\ mc.exc /= "none"
    /\ \E r \in {canonical_motif(dom, g, uc)} :
          /\ dom' = r.cache
          /\ mc' = [mc EXCEPT !.st = "reclassified", !.g2 = g,
                              !.use_cache2 = uc, !.exc2 = r.exc,
                              !.lbl2 = r.ret]
    /\ UNCHANGED <<toolVars, n_arg, law, gen, last, driverVars>>

NextMotif ==
    \/ \E g \in (0 - MaxNegGap)..MaxGap, uc \in BOOLEAN : Classify(g, uc)
    \/ Decode
    \/ \E g \in (0 - MaxNegGap)..MaxGap, uc \in BOOLEAN : Reclassify(g, uc)

SpecMotif == InitMotif /\ [][NextMotif]_vars

(***************************************************************************)
(* compute_motifs.py -- the resumable CSV driver.                          *)
(*                                                                         *)
(* csv is the CSV file (header: its header line is present; rows: its data *)
(* rows), state_file the JSON state file, drv the driver process: pc is    *)
(* idle between runs, stream inside the row loop, save before save_state;  *)
(* N and done are the locals of main; runs lists the --n of every run      *)
(* started.  law and gen are the engine and the stream of the current run. *)
(***************************************************************************)
\* load_progress: (written, state is loaded)
load_progress(c, st) ==
    IF c.exists /\ st.exists
    THEN [done  |-> ((IF c.header THEN 1 ELSE 0) + Len(c.rows)) - 1,
          saved |-> TRUE]
    ELSE [done |-> 0, saved |-> FALSE]

\* for _ in range(len(law.primes), done): law.generate_one()
FastForward(l, done) ==
    Iterate(LAMBDA m : generate_one(m).law, l, done - Len(l.primes))

\* a restore that also puts the saved last prime into the prime list
RestoreState_AppendsLastPrime(l, st) ==
    [l EXCEPT !.regime_points = st.regime_points,
              !.primes        = Append(@, st.last_prime)]

\* law.regime_points = saved.get("regime_points", [6])
RestoreState(l, st) == [l EXCEPT !.regime_points = st.regime_points]

\* main up to the row loop
MainStart(N) ==
    /\ drv.pc = "idle"
    /\ Len(drv.runs) < MaxRuns
    /\ \E lp \in {load_progress(csv, state_file)} :
           IF lp.done >= N
           THEN /\ drv' = [drv EXCEPT !.N = N, !.done = lp.done,
                                      !.saved = lp.saved,
                                      !.runs = Append(@, N)]
                /\ UNCHANGED <<toolVars, law, gen, csv>>
           ELSE /\ law' = IF lp.saved
                          THEN Bind(Bind(McCracknsPrimeLaw(N),
                                         LAMBDA l : RestoreState(l, state_file)),
                                    LAMBDA l : FastForward(l, lp.done))
                          ELSE McCracknsPrimeLaw(N)
                /\ csv' = IF csv.exists THEN csv
                          ELSE [exists |-> TRUE, header |-> TRUE,
                                rows |-> <<>>]
                /\ gen' = [st |-> "created", start_idx |-> lp.done + 1,
                           out |-> <<>>, fresh |-> ~lp.saved]
                /\ drv' = [pc |-> "stream", N |-> N, done |-> lp.done,
                           saved |-> lp.saved, runs |-> Append(drv.runs, N)]
    /\ UNCHANGED <<toolVars, n_arg, last, motifVars, state_file>>

\* one iteration of: for idx, p, g, m in law.stream_primes(...)
MainRow ==
    /\ drv.pc = "stream"
    /\ \E r \in {StreamResume(law, gen.start_idx)} :
          /\ law' = r.law
          /\ IF r.done
             THEN /\ gen' = [gen EXCEPT !.st = "done"]
                  /\ drv' = [drv EXCEPT !.pc = "save"]
                  /\ UNCHANGED csv
             ELSE /\ csv' = [csv EXCEPT !.rows = Append(@, r.ret)]
                  /\ gen' = [gen EXCEPT
                               !.st  = IF r.ret[1] >= drv.N THEN "closed"
                                       ELSE "suspended",
                               !.out = Append(@, r.ret)]
                  /\ drv' = [drv EXCEPT
                               !.pc = IF r.ret[1] >= drv.N THEN "save"
                                      ELSE "stream"]
    /\ UNCHANGED <<toolVars, n_arg, last, motifVars, state_file>>

\* save_state and the end of main
MainSave ==
    /\ drv.pc = "save"
    /\ state_file' = [exists        |-> TRUE,
                      last_prime    |-> law.primes[Len(law.primes)],
                      regime_points |-> law.regime_points]
    /\ drv' = [drv EXCEPT !.pc = "idle"]
    /\ UNCHANGED <<toolVars, n_arg, law, gen, last, motifVars, csv>>

InitDriver ==
    /\ n_arg = 2
    /\ law = McCracknsPrimeLaw(n_arg)
    /\ gen = NoGen
    /\ last = [op |-> "init", pre |-> law, ret |-> <<>>]
    /\ dom = EmptyCache
    /\ mc = NoCall
    /\ csv = NoCsv
    /\ state_file = NoState
    /\ drv = NoRun
    /\ InitTools

NextDriver ==
    \/ \E N \in 1..MaxRunN : MainStart(N)
    \/ MainRow
    \/ MainSave

SpecDriver == InitDriver /\ [][NextDriver]_vars

(***************************************************************************)
(* Reference definitions for the claims.                                   *)
(***************************************************************************)
(***************************************************************************)
(* next_prime.py: the engine is built up to the index before n, the prime   *)
(* given on the command line is put at index n, and one step is taken.      *)
(***************************************************************************)
\* the engine constructed for n primes instead of n + 1
build_law_with_prefix_TargetN(p_n, n) ==
    Bind(McCracknsPrimeLaw(n),
         LAMBDA l0 :
            Bind(Iterate(LAMBDA l : generate_one(l).law, l0,
                         (n - 1) - Len(l0.primes)),
                 LAMBDA l1 :
                    IF l1.exc /= "none" THEN l1
                    ELSE IF Len(l1.primes) >= n
                    THEN [l1 EXCEPT !.primes[n] = p_n]
                    ELSE [l1 EXCEPT !.primes = Append(@, p_n)]))

\* build_law_with_prefix(p_n, n): range(len(law.primes), n - 1) is fixed
\* when the loop starts; p_n is written into the list of primes only
build_law_with_prefix(p_n, n) ==
    Bind(McCracknsPrimeLaw(n + 1),
         LAMBDA l0 :
            Bind(Iterate(LAMBDA l : generate_one(l).law, l0,
                         (n - 1) - Len(l0.primes)),
                 LAMBDA l1 :
                    IF l1.exc /= "none" THEN l1
                    ELSE IF Len(l1.primes) >= n
                    THEN [l1 EXCEPT !.primes[n] = p_n]
                    ELSE [l1 EXCEPT !.primes = Append(@, p_n)]))

InitNextPrime ==
    /\ n_arg = 2
    /\ law = McCracknsPrimeLaw(n_arg)
    /\ gen = NoGen
    /\ last = [op |-> "init", pre |-> law, ret |-> <<>>]
    /\ dom = EmptyCache
    /\ mc = NoCall
    /\ csv = NoCsv
    /\ state_file = NoState
    /\ drv = NoRun
    /\ InitTools

\* main() up to law = build_law_with_prefix(p_n, n)
NextPrimeBuild(p_n, n) ==
    /\ nxt.pc = "idle"
    /\ \E l \in {build_law_with_prefix(p_n, n)} :
          /\ law' = l
          /\ nxt' = [nxt EXCEPT !.pc = IF l.exc = "none" THEN "built"
                                       ELSE "done",
                                !.P = p_n, !.n = n, !.exc = l.exc]
    /\ UNCHANGED <<n_arg, gen, last, motifVars, driverVars, prod, rd>>

\* python next_prime.py --P p --n n
MainP(p, n) == NextPrimeBuild(p, n)

\* python next_prime.py --exp e --n n: p_n = (1 << e) - 1
MainExp(e, n) == NextPrimeBuild(2 ^ e - 1, n)

\* law.generate_one(); p_np1 = law.primes[n]; print
MainAdvance ==
    /\ nxt.pc = "built"
    /\ \E r \in {generate_one(law)} :
          /\ law' = r.law
          /\ nxt' = IF r.law.exc /= "none"
                    THEN [nxt EXCEPT !.pc = "done", !.exc = r.law.exc]
                    ELSE IF nxt.n + 1 > Len(r.law.primes)
                    THEN [nxt EXCEPT !.pc = "done", !.exc = "IndexError"]
                    ELSE [nxt EXCEPT !.pc = "done",
                                     !.out = r.law.primes[nxt.n + 1]]
    /\ UNCHANGED <<n_arg, gen, last, motifVars, driverVars, prod, rd>>

\* the arguments on which the step is known to return: up to n = 5 no step
\* is taken, and from n = 6 an even p_n makes every candidate of an even
\* gap even, so that the alphabet is extended without end
StepReturns(p, n) == n < 6 \/ p % 2 = 1

NextNextPrime ==
    \/ \E p \in 2..MaxP, n \in 1..MaxN : StepReturns(p, n) /\ MainP(p, n)
    \/ \E e \in 1..MaxExp, n \in 1..MaxN : MainExp(e, n)
    \/ MainAdvance

SpecNextPrime == InitNextPrime /\ [][NextNextPrime]_vars

(***************************************************************************)
(* A producer thread running generate() and a reader thread polling         *)
(* len(law.primes), with no lock.  The producer moves one statement at a    *)
(* time through the loop of generate and through _record; the search for   *)
(* the candidate, from the start of _single_step to the call of _record, is *)
(* one move.  list.append and len are each one indivisible operation of     *)
(* the interpreter, so the reader sees the list before or after an append.  *)
(***************************************************************************)
\* CandidatePass stopped at the call of self._record(cand, gap, lbl): st
\* becomes rec with the arguments of the call in cand, gap and lbl
SearchPass(t) ==
    IF t.law.exc /= "none" THEN [t EXCEPT !.st = "ret"]
    ELSE IF t.i > Len(t.law.alphabet)
    THEN Bind(ExtendAlphabet(t.law),
              LAMBDA l1 :
                 IF l1.exc /= "none" THEN [t EXCEPT !.law = l1, !.st = "ret"]
                 ELSE [t EXCEPT !.law = l1, !.i = 1,
                                !.p_curr = l1.primes[Len(l1.primes)],
                                !.P = l1.primorial])
    ELSE IF _gap_raises(t.law.alphabet[t.i])
    THEN [t EXCEPT !.law = Raise(@, "ValueError"), !.st = "ret"]
    ELSE Bind(t.p_curr + _gap(t.law.alphabet[t.i]),
              LAMBDA cand :
                 IF gcd(cand, t.P) /= 1
                 THEN [t EXCEPT !.i = @ + 1]
                 ELSE Bind(RegimeLoop(t.law, cand, t.P),
                           LAMBDA r :
                              IF r.law.exc /= "none"
                              THEN [t EXCEPT !.law = r.law, !.st = "ret"]
                              ELSE IF r.broke
                              THEN [t EXCEPT !.law = r.law, !.P = r.P,
                                             !.i = @ + 1]
                              ELSE [t EXCEPT
                                      !.law  = r.law,
                                      !.cand = cand,
                                      !.gap  = _gap(t.law.alphabet[t.i]),
                                      !.lbl  = t.law.alphabet[t.i],
                                      !.st   = "rec"]))

SearchDone(t) == t.st \in {"ret", "rec"}

\* _single_step from its first line to the call of _record
CandidateSearch(l) ==
    IF l.exc /= "none" \/ Len(l.primes) < 6
    THEN [law |-> l, i |-> 1, p_curr |-> 0, P |-> l.primorial, st |-> "ret",
          cand |-> 0, gap |-> 0, lbl |-> U1]
    ELSE RunUntil(SearchPass, SearchDone,
                  [law |-> l, i |-> 1, p_curr |-> l.primes[Len(l.primes)],
                   P |-> l.primorial, st |-> "for",
                   cand |-> 0, gap |-> 0, lbl |-> U1],
                  4)

\* the loop of generate entered also when the count has reached n_primes
GenerateLoopTest_Inclusive(l) == Len(l.primes) <= l.n_primes

\* while len(self.primes) < self.n_primes
GenerateLoopTest(l) == Len(l.primes) < l.n_primes

\* the host starts the thread that calls law.generate()
ProdStart ==
    /\ prod.pc = "idle"
    /\ law.exc = "none"
    /\ prod' = [prod EXCEPT !.pc = "loop"]
    /\ UNCHANGED <<n_arg, law, gen, last, motifVars, driverVars, nxt, rd>>

\* the test of the while loop; return self.primes when it fails
ProdLoopTest ==
    /\ prod.pc = "loop"
    /\ prod' = [prod EXCEPT !.pc = IF GenerateLoopTest(law) THEN "step"
                                   ELSE "returned"]
    /\ UNCHANGED <<n_arg, law, gen, last, motifVars, driverVars, nxt, rd>>

\* self._single_step() up to the call of _record; below 6 primes the step
\* returns at once, back to the test of the loop
ProdSearch ==
    /\ prod.pc = "step"
    /\ \E t \in {CandidateSearch(law)} :
          /\ law' = t.law
          /\ prod' = IF t.law.exc /= "none" THEN [prod EXCEPT !.pc = "raised"]
                     ELSE IF t.st = "rec"
                     THEN [prod EXCEPT !.pc = "rec_primes", !.cand = t.cand,
                                       !.gap = t.gap, !.lbl = t.lbl]
                     ELSE [prod EXCEPT !.pc = "loop"]
    /\ UNCHANGED <<n_arg, gen, last, motifVars, driverVars, nxt, rd>>

\* self.primes.append(cand)
ProdRecPrimes ==
    /\ prod.pc = "rec_primes"
    /\ law' = [law EXCEPT !.primes = Append(@, prod.cand)]
    /\ prod' = [prod EXCEPT !.pc = "rec_gaps"]
    /\ UNCHANGED <<n_arg, gen, last, motifVars, driverVars, nxt, rd>>

\* self.gaps.append(gap)
ProdRecGaps ==
    /\ prod.pc = "rec_gaps"
    /\ law' = [law EXCEPT !.gaps = Append(@, prod.gap)]
    /\ prod' = [prod EXCEPT !.pc = "rec_run"]
    /\ UNCHANGED <<n_arg, gen, last, motifVars, driverVars, nxt, rd>>

\* run = self._run_counter.get(label, 0) + 1
ProdRecRun ==
    /\ prod.pc = "rec_run"
    /\ prod' = [prod EXCEPT !.pc = "rec_counter",
                            !.run = RunOf(law.run_counter, prod.lbl) + 1]
    /\ UNCHANGED <<n_arg, law, gen, last, motifVars, driverVars, nxt, rd>>

\* self._run_counter[label] = run
ProdRecCounter ==
    /\ prod.pc = "rec_counter"
    /\ law' = [law EXCEPT !.run_counter = SetRun(@, prod.lbl, prod.run)]
    /\ prod' = [prod EXCEPT !.pc = "rec_motifs"]
    /\ UNCHANGED <<n_arg, gen, last, motifVars, driverVars, nxt, rd>>

\* self.motifs.append((label, run))
ProdRecMotifs ==
    /\ prod.pc = "rec_motifs"
    /\ law' = [law EXCEPT !.motifs = Append(@, <<prod.lbl, prod.run>>)]
    /\ prod' = [prod EXCEPT !.pc = "rec_used"]
    /\ UNCHANGED <<n_arg, gen, last, motifVars, driverVars, nxt, rd>>

\* self.used_motifs.add(label)
ProdRecUsed ==
    /\ prod.pc = "rec_used"
    /\ law' = [law EXCEPT !.used_motifs = @ \cup {prod.lbl}]
    /\ prod' = [prod EXCEPT !.pc = "rec_test"]
    /\ UNCHANGED <<n_arg, gen, last, motifVars, driverVars, nxt, rd>>

\* if len(self.used_motifs) == len(self.alphabet): self._bump_regime()
\* and the return of _record and of _single_step to the loop
ProdRecTest ==
    /\ prod.pc = "rec_test"
    /\ \E l \in {IF Cardinality(law.used_motifs) = Len(law.alphabet)
                 THEN _bump_regime(law) ELSE law} :
          /\ law' = l
          /\ prod' = [prod EXCEPT !.pc = IF l.exc /= "none" THEN "raised"
                                         ELSE "loop",
                                  !.cand = 0, !.gap = 0, !.lbl = U1,
                                  !.run = 0]
    /\ UNCHANGED <<n_arg, gen, last, motifVars, driverVars, nxt, rd>>

\* the reader evaluates len(law.primes); the model also keeps the primes
\* the count refers to, which the reader does not read
Poll ==
    /\ rd' = [polled |-> TRUE, count |-> Len(law.primes),
              primes |-> law.primes]
    /\ rd' /= rd
    /\ UNCHANGED <<n_arg, law, gen, last, motifVars, driverVars, nxt, prod>>

NextPoll ==
    \/ ProdStart
    \/ ProdLoopTest
    \/ ProdSearch
    \/ ProdRecPrimes
    \/ ProdRecGaps
    \/ ProdRecRun
    \/ ProdRecCounter
    \/ ProdRecMotifs
    \/ ProdRecUsed
    \/ ProdRecTest
    \/ Poll

SpecPoll == Init /\ [][NextPoll]_vars

\* int(n ** 0.5)
IntSqrt(n) == CHOOSE r \in 0..n : r * r <= n /\ (r + 1) * (r + 1) > n

\* src/prime_utils.py -- is_prime: trial division by the odd numbers of
\* range(3, int(n ** 0.5) + 1, 2)
is_prime(n) ==
    IF n < 2 THEN FALSE
    ELSE IF n = 2 THEN TRUE
    ELSE IF n % 2 = 0 THEN FALSE
    ELSE \A i \in 3..IntSqrt(n) : i % 2 = 1 => n % i /= 0

\* s is the sequence of the first Len(s) primes
IsPrimePrefix(s) ==
    /\ \A i \in 1..Len(s) : is_prime(s[i])
    /\ Len(s) >= 1 => s[1] = 2
    /\ \A i \in 1..(Len(s) - 1) :
          /\ s[i] < s[i + 1]
          /\ \A q \in (s[i] + 1)..(s[i + 1] - 1) : ~is_prime(q)

\* C1: for every target n_primes >= 2, generate() returns exactly n_primes
\* integers and they are the first n_primes prime numbers in order.
C1_GenerateFirstPrimes ==
    (last.op = "generate" /\ n_arg >= 2) =>
        /\ law.exc = "none"
        /\ Len(last.ret) = n_arg
        /\ IsPrimePrefix(last.ret)

C1_Witness ==
    /\ last.op = "generate"
    /\ n_arg = 20
    /\ Len(last.pre.primes) < 20
    /\ last.ret[20] = 71

Last(s) == s[Len(s)]

\* one iteration of the row loop of main on a run t with no files present
DrainPass(t, N) ==
    Bind(StreamResume(t.law, 1),
         LAMBDA r :
            IF r.done THEN [t EXCEPT !.law = r.law, !.st = "done"]
            ELSE [law  |-> r.law,
                  rows |-> Append(t.rows, r.ret),
                  st   |-> IF r.ret[1] >= N THEN "done" ELSE "run"])

DrainDone(t) == t.st = "done"

\* one uninterrupted run of the driver to N with no files present: the
\* engine at its end and the rows it writes
UninterruptedRun(N) ==
    Bind(McCracknsPrimeLaw(N),
         LAMBDA l : RunUntil(LAMBDA t : DrainPass(t, N), DrainDone,
                             [law |-> l, rows |-> <<>>, st |-> "run"], 4))

\* a run to k and then a run to N > k have both ended
ResumedRunEnded ==
    /\ drv.pc = "idle"
    /\ Len(drv.runs) = 2
    /\ drv.runs[1] < drv.runs[2]

\* C2: after a run to k and a resumed run to N > k, the engine's prime
\* sequence is the one of a single uninterrupted run to N.
C2_ResumePrimes ==
    ResumedRunEnded =>
        /\ law.exc = "none"
        /\ law.primes = UninterruptedRun(drv.runs[2]).law.primes

C2_Witness ==
    /\ ResumedRunEnded
    /\ drv.saved
    /\ drv.done > 6
    /\ Len(law.primes) = drv.runs[2]
    /\ Len(law.primes) > drv.runs[1]

\* C3: the rows in the sink after a run to k and a resumed run to N > k are
\* exactly the rows of one uninterrupted run to N, in the same order.
C3_ResumeRows ==
    ResumedRunEnded => csv.rows = UninterruptedRun(drv.runs[2]).rows

\* the gaps the round trip is claimed for
ValidGap(g) == g = 1 \/ (g >= 2 /\ g % 2 = 0)

\* C4: for g = 1 and every even g >= 2, canonical_motif(g) returns a label
\* that _gap decodes back to g; classifying the decoded gap again returns
\* the same label; two such gaps with the same label are equal.
C4_RoundTrip ==
    /\ (mc.st /= "new" /\ ValidGap(mc.g)) => mc.exc = "none"
    /\ (mc.st \in {"decoded", "reclassified"} /\ ValidGap(mc.g)) =>
          /\ mc.gexc = "none"
          /\ mc.back = mc.g
    /\ (mc.st = "reclassified" /\ ValidGap(mc.g) /\ mc.gexc = "none"
          /\ mc.g2 = mc.back) =>
          /\ mc.exc2 = "none"
          /\ mc.lbl2 = mc.lbl
    /\ (mc.st = "reclassified" /\ ValidGap(mc.g) /\ ValidGap(mc.g2)
          /\ mc.exc2 = "none" /\ mc.lbl2 = mc.lbl) => mc.g2 = mc.g

C4_Witness ==
    /\ mc.st = "reclassified"
    /\ mc.g = 24
    /\ mc.lbl = E(4, 0)
    /\ mc.back = 24
    /\ mc.g2 = 24
    /\ mc.lbl2 = E(4, 0)

\* C5: an engine constructed with n_primes = 1 completes generate() without
\* error and yields exactly the sequence [2].
C5_SinglePrime ==
    (n_arg = 1 /\ last.op = "generate") =>
        /\ law.exc = "none"
        /\ last.ret = <<2>>

\* C6: a call of generate() or generate_one() made when the prime count
\* equals n_primes raises nothing and leaves every attribute of the engine
\* as it was.
C6_TargetReachedNoOp ==
    (/\ last.op \in {"generate", "generate_one"}
     /\ Len(last.pre.primes) = last.pre.n_primes) =>
        /\ law.exc = "none"
        /\ law = last.pre

C6_Witness ==
    /\ last.op = "generate_one"
    /\ Len(last.pre.primes) = last.pre.n_primes
    /\ last.pre.n_primes >= 7
    /\ last.ret[1] = last.pre.n_primes

\* C7: a call of generate_one() made at prime count c < n_primes appends
\* exactly one prime p and returns (c+1, p, g, m) with g = p minus the
\* previous last prime and m = canonical_motif(g).
C7_GenerateOneStep ==
    (/\ last.op = "generate_one"
     /\ Len(last.pre.primes) < last.pre.n_primes) =>
        LET c == Len(last.pre.primes)
            p == Last(law.primes)
            g == p - Last(last.pre.primes)
            m == canonical_motif(EmptyCache, g, FALSE)
        IN  /\ law.exc = "none"
            /\ Len(law.primes) = c + 1
            /\ SubSeq(law.primes, 1, c) = last.pre.primes
            /\ m.exc = "none"
            /\ last.ret = <<c + 1, p, g, m.ret>>

C7_Witness ==
    /\ last.op = "generate_one"
    /\ Len(last.pre.primes) = 9
    /\ last.ret = <<10, 29, 6, E(2, 0)>>

\* C8: fully consuming stream_primes(start_idx=s) on a freshly constructed
\* engine, 1 <= s <= n_primes, yields one tuple for each index s, s+1, ...,
\* n_primes in increasing order, each carrying the prime at that index.
C8_StreamCoversRange ==
    (gen.st = "done" /\ gen.fresh) =>
        /\ Len(gen.out) = (law.n_primes - gen.start_idx) + 1
        /\ \A i \in 1..Len(gen.out) :
              /\ gen.out[i][1] = (gen.start_idx + i) - 1
              /\ gen.out[i][2] = law.primes[gen.out[i][1]]

\* C9: whenever the stream is suspended after yielding the tuple of index i
\* the prime count is exactly i, and when the consumer stops iterating the
\* engine is left as it was, at the count of the last yielded tuple.
C9_StreamLazy ==
    /\ gen.st = "suspended" =>
          /\ Len(gen.out) > 0
          /\ Len(law.primes) = Last(gen.out)[1]
    /\ (gen.st = "closed" /\ last.op = "close") =>
          /\ law = last.pre
          /\ Len(gen.out) > 0 => Len(law.primes) = Last(gen.out)[1]

C9_Witness ==
    /\ gen.st = "closed"
    /\ last.op = "close"
    /\ Len(gen.out) >= 3
    /\ Last(gen.out)[1] = 12
    /\ law.n_primes >= 20

\* the number of entries of the motif history up to position i that carry
\* the label of entry i
OccurrencesUpTo(motifs, i) ==
    Cardinality({j \in 1..i : motifs[j][1] = motifs[i][1]})

\* C10: the motif history holds no two identical (label, run) entries, the
\* runs of each label are 1, 2, 3, ... in order of occurrence, and the run
\* counter of a label is the number of its entries.
C10_RunCounters ==
    /\ \A i, j \in 1..Len(law.motifs) :
          i /= j => law.motifs[i] /= law.motifs[j]
    /\ \A i \in 1..Len(law.motifs) :
          /\ law.motifs[i][2] = OccurrencesUpTo(law.motifs, i)
          /\ law.motifs[i][1] \in DOMAIN law.run_counter
    /\ \A m \in DOMAIN law.run_counter :
          law.run_counter[m] =
              Cardinality({j \in 1..Len(law.motifs) : law.motifs[j][1] = m})

C10_Witness ==
    /\ Len(law.motifs) >= 20
    /\ <<E(2, 0), 5>> = law.motifs[19]
    /\ law.run_counter[E(1, 1)] >= 4

\* C11: in every state reached from construction by generate, generate_one
\* and stream steps, regime_points is strictly increasing, its first element
\* is 6 and every element is at most the current prime count.
C11_RegimePointsIncreasing ==
    /\ \A i, j \in 1..Len(law.regime_points) :
          i < j => law.regime_points[i] < law.regime_points[j]
    /\ \A i \in 1..Len(law.regime_points) :
          law.regime_points[i] <= Len(law.primes)
    /\ Len(law.regime_points) >= 1 => law.regime_points[1] = 6

C11_Witness ==
    /\ last.op = "next"
    /\ law.regime_points = <<6, 9, 15>>
    /\ Len(law.primes) = 16

\* the labels added to the alphabet and the regime points recorded between
\* the engine a and the later engine b
LabelsAdded(a, b) == Len(b.alphabet) - Len(a.alphabet)
PointsAdded(a, b) == Len(b.regime_points) - Len(a.regime_points)

\* C12 as stated: the alphabet size never decreases over a call, and the
\* number of labels added to the alphabet since construction equals the
\* number of regime points recorded since construction.
C12_GrowthOnlyAtExpansion ==
    /\ LabelsAdded(last.pre, law) >= 0
    /\ Bind(McCracknsPrimeLaw(n_arg),
            LAMBDA l0 : LabelsAdded(l0, law) = PointsAdded(l0, law))

\* C12 amended: the alphabet size never decreases, and over every call and
\* since construction at least as many labels are added as regime points
\* are recorded (a step that finds no candidate also adds a label).
C12_GrowthAtLeastExpansion ==
    /\ LabelsAdded(last.pre, law) >= 0
    /\ LabelsAdded(last.pre, law) >= PointsAdded(last.pre, law)
    /\ Bind(McCracknsPrimeLaw(n_arg),
            LAMBDA l0 : LabelsAdded(l0, law) >= PointsAdded(l0, law))

C12_Witness ==
    /\ last.op = "generate_one"
    /\ Len(last.pre.primes) = 9
    /\ LabelsAdded(last.pre, law) = 2
    /\ PointsAdded(last.pre, law) = 1

\* the number of primes up to p: the prime count a snapshot whose last
\* prime is p stands for
PrimeCountUpTo(p) == Cardinality({q \in 2..p : is_prime(q)})

\* a snapshot with strictly increasing regime points that stands for at
\* least as many primes as the output holds rows
ConsistentSnapshot(st, rows) ==
    /\ \A i, j \in 1..Len(st.regime_points) :
          i < j => st.regime_points[i] < st.regime_points[j]
    /\ PrimeCountUpTo(st.last_prime) >= rows

\* C13: a resumed run whose restored snapshot has non-monotonic regime
\* points, or stands for fewer steps than the output holds rows, ends in an
\* error before it generates a prime or writes a row: no run that restored
\* such a snapshot is ever in its row loop or at its save.
C13_InconsistentResumeRejected ==
    (drv.pc \in {"stream", "save"} /\ drv.saved) =>
        ConsistentSnapshot(state_file, drv.done)

\* C14: construction performs the initial regime expansion if and only if
\* n_primes > 6; for n_primes <= 6 the constructed engine is in the seed
\* state regime_idx = 1, primorial = 6, alphabet = [U1, E1.0], used_motifs =
\* the alphabet, regime_points = [].
C14_InitialExpansion ==
    last.op = "init" =>
        IF n_arg > 6
        THEN /\ law.bumped.n = 1
             /\ law.regime_points = <<6>>
        ELSE /\ law.bumped.n = 0
             /\ law.regime_idx = 1
             /\ law.primorial = 6
             /\ law.alphabet = <<U1, E(1, 0)>>
             /\ law.used_motifs = {U1, E(1, 0)}
             /\ law.regime_points = <<>>

\* the exponent k of g = 2^k * m with m odd, for g >= 1
TwoExponent(g) == CHOOSE k \in 0..g : g % (2 ^ k) = 0 /\ g % (2 ^ (k + 1)) /= 0

\* the label the claim gives for gap 1 and for the even gaps g >= 2
ExpectedLabel(g) ==
    IF g = 1 THEN U1
    ELSE LET k == TwoExponent(g)
             m == g \div (2 ^ k)
         IN  IF m = 1 THEN E(1, k - 1) ELSE E(k + 1, (m - 3) \div 2)

\* C15: for gap 1 and every even gap g >= 2, g = 2^k * m with m odd,
\* canonical_motif(g) is U1 for g = 1, E1.{k-1} when m = 1 and
\* E{k+1}.{(m-3)/2} when m >= 3, on a first call and on a later call,
\* with or without the cache, served from the cache or not.
C15_CanonicalLabel ==
    /\ (mc.st /= "new" /\ ValidGap(mc.g)) =>
          /\ mc.exc = "none"
          /\ mc.lbl = ExpectedLabel(mc.g)
    /\ (mc.st = "reclassified" /\ ValidGap(mc.g2)) =>
          /\ mc.exc2 = "none"
          /\ mc.lbl2 = ExpectedLabel(mc.g2)

C15_Witness ==
    /\ mc.st = "reclassified"
    /\ mc.g = 40 /\ mc.use_cache
    /\ mc.g2 = 40 /\ mc.use_cache2
    /\ DOMAIN dom = {40}
    /\ mc.lbl2 = E(4, 1)

\* an odd gap other than 1, negative ones included
OddNotOne(g) == g % 2 /= 0 /\ g /= 1

\* C16: every call of canonical_motif with an odd gap other than 1 raises
\* ValueError, returns no label, and leaves the memoization cache as it was.
C16_OddGapRejected ==
    [][/\ (mc'.st = "classified" /\ OddNotOne(mc'.g)) =>
            /\ mc'.exc = "ValueError"
            /\ dom' = dom
       /\ (mc'.st = "reclassified" /\ OddNotOne(mc'.g2)) =>
            /\ mc'.exc2 = "ValueError"
            /\ dom' = dom]_vars

C16_Witness ==
    /\ mc.st = "reclassified"
    /\ mc.g = 6 /\ mc.use_cache /\ mc.exc = "none"
    /\ mc.g2 = -3 /\ mc.use_cache2 /\ mc.exc2 = "ValueError"
    /\ DOMAIN dom = {6}

\* g is a positive power of two or 2^k * (2x + 3) with k >= 1 and x >= 0
Expressible(g) ==
    \E k \in 1..bit_length(g) :
        \/ g = 2 ^ k
        \/ \E x \in 0..g : g = (2 ^ k) * (2 * x + 3)

\* C17: canonical_motif raises ValueError for every even gap that is
\* neither a positive power of two nor 2^k * (2x + 3), gap 0 and the
\* negative even gaps among them, and every label it returns is decoded by
\* _gap back to the gap it was given.
C17_InexpressibleRejected ==
    /\ (mc.st /= "new" /\ mc.g % 2 = 0 /\ ~Expressible(mc.g)) =>
          mc.exc = "ValueError"
    /\ (mc.st \in {"decoded", "reclassified"} /\ mc.exc = "none") =>
          /\ mc.gexc = "none"
          /\ mc.back = mc.g

\* C18: for n_primes >= 6, in every state between steps the last prime is
\* below primes[regime_idx] ** 2, and a prime recorded beyond the seed is
\* coprime to the primorial of the regime it was recorded in, the one
\* current after any regime expansion of the same step.
C18_CandidateWithinRegime ==
    (n_arg >= 6 /\ law.exc = "none") =>
        /\ Last(law.primes) < law.primes[law.regime_idx + 1] ^ 2
        /\ Len(law.primes) > 6 => gcd(Last(law.primes), law.primorial) = 1

C18_Witness ==
    /\ last.op = "generate_one"
    /\ law.bumped.n = last.pre.bumped.n + 1
    /\ Last(last.pre.primes) = 47
    /\ Last(law.primes) = 53
    /\ law.primorial = 2310

\* the product of the first n elements of s
RECURSIVE ProductOfFirst(_, _)
ProductOfFirst(s, n) == IF n = 0 THEN 1 ELSE s[n] * ProductOfFirst(s, n - 1)

\* C19: in every reachable state the primorial is the product of the primes
\* at the 0-based positions 0 to regime_idx of the prime sequence.
C19_PrimorialProduct ==
    law.exc = "none" =>
        /\ law.regime_idx + 1 <= Len(law.primes)
        /\ law.primorial = ProductOfFirst(law.primes, law.regime_idx + 1)

C19_Witness ==
    /\ last.op = "next"
    /\ law.regime_idx = 4
    /\ law.primorial = 2310
    /\ Len(law.primes) = 20

\* C20: every call of _bump_regime, at construction or inside the candidate
\* loop of a step, appends one regime point equal to the prime count, adds
\* one label to the alphabet, increases regime_idx by 1, empties
\* used_motifs and leaves primes, gaps and the motif history as they were;
\* regime_idx stays below the prime count, so the inner single step is
\* never run.
C20_ExpansionFrame ==
    law.bumped.n > 0 =>
        LET a == law.bumped.pre
            b == law.bumped.post
        IN  /\ b.exc = "none"
            /\ b.regime_points = Append(a.regime_points, Len(a.primes))
            /\ Len(b.alphabet) = Len(a.alphabet) + 1
            /\ \A i \in 1..Len(a.alphabet) : InSeq(a.alphabet[i], b.alphabet)
            /\ b.regime_idx = a.regime_idx + 1
            /\ b.regime_idx < Len(b.primes)
            /\ b.used_motifs = {}
            /\ b.primes = a.primes
            /\ b.gaps = a.gaps
            /\ b.motifs = a.motifs

C20_Witness ==
    /\ last.op = "generate_one"
    /\ law.bumped.n = 2
    /\ Len(law.bumped.pre.primes) = 9
    /\ law.bumped.pre.alphabet = <<U1, E(1, 0), E(1, 1), E(2, 0)>>
    /\ law.bumped.pre.used_motifs = {E(1, 0), E(1, 1)}
    /\ Len(law.primes) = 10

\* the gap at position i of an alphabet that holds 1, 2, 4, 6, ...
AlphabetGap(i) == IF i = 1 THEN 1 ELSE 2 * (i - 1)

\* C21: in every reachable state the alphabet has no duplicate labels and
\* its labels, in list order, are the canonical motifs of the gaps 1, 2, 4,
\* 6, ..., 2(m-1); a call only appends to it: the alphabet before the call
\* is a prefix of the alphabet after it.
C21_AlphabetContiguous ==
    law.exc = "none" =>
        /\ \A i, j \in 1..Len(law.alphabet) :
              i /= j => law.alphabet[i] /= law.alphabet[j]
        /\ \A i \in 1..Len(law.alphabet) :
              /\ ~_gap_raises(law.alphabet[i])
              /\ _gap(law.alphabet[i]) = AlphabetGap(i)
              /\ law.alphabet[i] = ExpectedLabel(AlphabetGap(i))
        /\ Len(last.pre.alphabet) <= Len(law.alphabet)
        /\ SubSeq(law.alphabet, 1, Len(last.pre.alphabet)) = last.pre.alphabet

C21_Witness ==
    /\ last.op = "generate_one"
    /\ last.pre.alphabet = <<U1, E(1, 0), E(1, 1)>>
    /\ law.alphabet = <<U1, E(1, 0), E(1, 1), E(2, 0), E(1, 2)>>

\* s is a prefix of t
IsPrefix(s, t) == Len(s) <= Len(t) /\ SubSeq(t, 1, Len(s)) = s

\* C22: after construction and after every call, len(gaps) = len(primes) - 1,
\* len(motifs) = len(primes), every gap is the positive difference of its
\* two primes, the label of the motif entry of a prime is the canonical
\* motif of the gap before it, and the call only appended to the three
\* sequences.
C22_SequencesAligned ==
    law.exc = "none" =>
        /\ Len(law.gaps) = Len(law.primes) - 1
        /\ Len(law.motifs) = Len(law.primes)
        /\ \A i \in 1..Len(law.gaps) :
              /\ law.gaps[i] = law.primes[i + 1] - law.primes[i]
              /\ law.gaps[i] > 0
              /\ Bind(canonical_motif(EmptyCache, law.gaps[i], FALSE),
                      LAMBDA r : /\ r.exc = "none"
                                 /\ law.motifs[i + 1][1] = r.ret)
        /\ IsPrefix(last.pre.primes, law.primes)
        /\ IsPrefix(last.pre.gaps, law.gaps)
        /\ IsPrefix(last.pre.motifs, law.motifs)

C22_Witness ==
    /\ last.op = "generate"
    /\ Len(last.pre.primes) = 8
    /\ Len(law.primes) = 25
    /\ law.gaps[24] = 8
    /\ law.motifs[25] = <<E(1, 2), 1>>

\* C23: for every target n_primes >= 2 a call of generate() returns, with
\* no exception and the prime count equal to n_primes (every step of it found
\* its candidate after finitely many alphabet extensions and regime
\* expansions), and in no reachable state does the prime count exceed
\* n_primes.
C23_GenerateTerminates ==
    /\ Len(law.primes) <= law.n_primes
    /\ law.exc /= "Diverges"
    /\ (last.op = "generate" /\ n_arg >= 2) =>
          /\ law.exc = "none"
          /\ Len(law.primes) = law.n_primes
          /\ law.n_primes = n_arg

C23_Witness ==
    /\ last.op = "generate"
    /\ n_arg = 30
    /\ Len(last.pre.primes) = 6
    /\ Len(law.primes) = 30
    /\ law.bumped.n = 3
    /\ Len(law.alphabet) = 6

\* C24: for n_primes >= 6, in every state after construction used_motifs is
\* a subset of the alphabet without U1, so it never equals the alphabet;
\* every call of _bump_regime after the one of construction was made with
\* used_motifs short of the alphabet, for a candidate (the prime recorded
\* next) that had reached primes[regime_idx] ** 2.
C24_ExhaustionNeverFires ==
    (n_arg >= 6 /\ law.exc = "none") =>
        /\ \A m \in law.used_motifs : InSeq(m, law.alphabet)
        /\ U1 \notin law.used_motifs
        /\ Cardinality(law.used_motifs) < Len(law.alphabet)
        /\ law.bumped.n >= 2 =>
              /\ Cardinality(law.bumped.pre.used_motifs)
                    < Len(law.bumped.pre.alphabet)
              /\ Len(law.primes) > Len(law.bumped.pre.primes)
              /\ law.primes[Len(law.bumped.pre.primes) + 1]
                    >= law.bumped.pre.primes[law.bumped.pre.regime_idx + 1] ^ 2

C24_Witness ==
    /\ last.op = "next"
    /\ law.bumped.n = 3
    /\ law.used_motifs = {E(1, 0), E(1, 1), E(2, 0), E(1, 2)}
    /\ Len(law.alphabet) = 6
    /\ Last(law.primes) = 97

\* the part of the engine state the claim compares
TargetFreeState(l) ==
    <<l.primes, l.gaps, l.motifs, l.alphabet, l.regime_idx, l.primorial,
      l.regime_points>>

\* C25: for targets 6 <= k <= N, an engine built with n_primes = N has, when
\* its prime count is k, the primes, gaps, motifs, alphabet, regime_idx,
\* primorial and regime_points of an engine built with n_primes = k after
\* generate().
C25_TargetIndependent ==
    (law.exc = "none" /\ Len(law.primes) >= 6) =>
        TargetFreeState(law)
            = TargetFreeState(generate(McCracknsPrimeLaw(Len(law.primes))))

C25_Witness ==
    /\ last.op = "generate_one"
    /\ n_arg = 30
    /\ Len(law.primes) = 17
    /\ law.regime_points = <<6, 9, 15>>

\* C26: when a resumed run of compute_motifs has restored the saved state
\* and fast-forwarded its fresh engine, the regime_points of the engine are
\* those of an uninterrupted engine at the same prime count, strictly
\* increasing, no point recorded twice.
C26_RegimePointsRoundTrip ==
    (drv.pc = "stream" /\ drv.saved /\ gen.st = "created") =>
        /\ law.regime_points
              = FastForward(McCracknsPrimeLaw(drv.N),
                            Len(law.primes)).regime_points
        /\ \A i, j \in 1..Len(law.regime_points) :
              i < j => law.regime_points[i] < law.regime_points[j]

\* C27: after a completed export to N >= 7, a second run with the same N,
\* CSV file and state file takes the early exit: it never enters the row
\* loop and the CSV rows stay those of the first run.
C27_IdempotentExport ==
    (/\ Len(drv.runs) = 2
     /\ drv.runs[1] = drv.runs[2]
     /\ drv.runs[1] >= 7) =>
        /\ drv.pc = "idle"
        /\ csv.rows = UninterruptedRun(drv.runs[1]).rows

\* the k-th prime by trial division, for k with a k-th prime below 2 * MaxP
NthPrime(k) ==
    CHOOSE p \in 2..(2 * MaxP) :
        is_prime(p) /\ Cardinality({q \in 2..p : is_prime(q)}) = k

\* C28: when next_prime.py is given an index n >= 1 and the true n-th prime,
\* it ends without an exception and the value it prints, primes[n] after
\* build_law_with_prefix and one generate_one, is the (n+1)-th prime; so
\* 97 at n = 25 gives 101 and 31 at n = 11 gives 37.
C28_NextPrime ==
    (/\ nxt.pc = "done"
     /\ nxt.n >= 1
     /\ nxt.P = NthPrime(nxt.n)) =>
        /\ nxt.exc = "none"
        /\ nxt.out = NthPrime(nxt.n + 1)
        /\ (nxt.P = 97 /\ nxt.n = 25) => nxt.out = 101
        /\ (nxt.P = 31 /\ nxt.n = 11) => nxt.out = 37

\* a finished run from the true n-th prime where the step that is skipped,
\* the one producing the n-th prime, expands the regime in a plain engine
C28_Witness ==
    /\ nxt.pc = "done"
    /\ nxt.n >= 8
    /\ nxt.P = NthPrime(nxt.n)
    /\ nxt.out = NthPrime(nxt.n + 1)
    /\ InSeq(nxt.n - 1, generate(McCracknsPrimeLaw(nxt.n)).regime_points)

\* C29: across every move of the producer or of the reader, the count the
\* reader holds does not decrease, is at most n_primes, and the primes it
\* referred to when it was read are still the first count entries of the
\* list.
C29_LockFreeCount ==
    [][/\ rd'.count >= rd.count
       /\ rd'.count <= law'.n_primes
       /\ rd'.count <= Len(law'.primes)
       /\ SubSeq(law'.primes, 1, rd'.count) = rd'.primes]_vars

\* the reader has read a count above the seed while the producer stands
\* inside _record, after the append to primes and before the append to gaps
C29_Witness ==
    /\ rd.polled
    /\ rd.count > 6
    /\ prod.pc = "rec_gaps"
    /\ Len(law.primes) = rd.count
    /\ Len(law.gaps) = rd.count - 2

====
